---- MODULE Spec2Model ----
(***************************************************************************)
(* Model of the job-search engine: SearchEngine (src/index.py), its HTTP   *)
(* callers (src/app.py) and QueryAutoCompletion (src/qac.py).              *)
(*                                                                         *)
(* A string is a sequence of one-character strings, so that joining,       *)
(* splitting and slicing are computed and not assumed.                     *)
(***************************************************************************)
EXTENDS Integers, Sequences, FiniteSets, TLC

VARIABLES
    disk,             \* the directory self.index_path on the file system
    index,            \* SearchEngine.index
    retrieval_model,  \* SearchEngine.retrieval_model
    db,               \* rows of the job_listings table (the job_id column)
    lastSet,          \* history: model name of the caller's latest set_retrieval_model
    wpc,              \* the indexing process: where its create_index call stands
    wdocs,            \* the indexing process: the documents it has still to write
    wjob,             \* history: the index before and after the running rebuild
    model,            \* the completion model the autocomplete package holds
    ret               \* the outcome of the latest call, as its caller sees it

vars == <<disk, index, retrieval_model, db, lastSet, wpc, wdocs, wjob, model, ret>>

\* the state of the indexing process
writerVars == <<wpc, wdocs, wjob>>

(***************************************************************************)
(* Bounds and input sets                                                   *)
(***************************************************************************)
\* num_results is drawn from MinLimit..MaxLimit
MaxLimit == 2
MinLimit == 0 - 1

\* search(self, query, num_results=10, engine=None)
DefaultNumResults == 10

\* the queries given to get_suggestions have at most MaxQueryLen characters
MaxQueryLen == 3

\* get_suggestions(self, query, limit=5)
DefaultLimit == 5

None == [none |-> TRUE]

Range(s) == {s[i] : i \in DOMAIN s}

(***************************************************************************)
(* Strings                                                                 *)
(***************************************************************************)
Digit(d) ==
    CASE d = 0 -> "0" [] d = 1 -> "1" [] d = 2 -> "2" [] d = 3 -> "3"
      [] d = 4 -> "4" [] d = 5 -> "5" [] d = 6 -> "6" [] d = 7 -> "7"
      [] d = 8 -> "8" [] d = 9 -> "9"

\* str(n) of a non-negative integer
RECURSIVE StrInt(_)
StrInt(n) == IF n < 10 THEN <<Digit(n)>> ELSE StrInt(n \div 10) \o <<Digit(n % 10)>>

\* ' '.join(parts)
RECURSIVE JoinSpace(_)
JoinSpace(parts) ==
    IF Len(parts) = 0 THEN <<>>
    ELSE IF Len(parts) = 1 THEN parts[1]
    ELSE parts[1] \o <<" ">> \o JoinSpace(Tail(parts))

\* The index terms of a text: the maximal runs of non-blank characters.
RECURSIVE TermsAcc(_, _, _)
TermsAcc(s, cur, acc) ==
    IF Len(s) = 0 THEN (IF Len(cur) = 0 THEN acc ELSE Append(acc, cur))
    ELSE IF Head(s) = " "
         THEN TermsAcc(Tail(s), <<>>, IF Len(cur) = 0 THEN acc ELSE Append(acc, cur))
         ELSE TermsAcc(Tail(s), Append(cur, Head(s)), acc)

Terms(s) == TermsAcc(s, <<>>, <<>>)

(***************************************************************************)
(* Data frames: the batches handed to create_index                         *)
(***************************************************************************)
\* cells of a frame: an integer, a string, or NaN (null)
IntCell(n) == [t |-> "int", v |-> n]
StrCell(s) == [t |-> "str", v |-> s]
NaN == [t |-> "nan"]

\* pd.notna(val)
notna(cell) == cell.t # "nan"

\* str(val)
StrOf(cell) == IF cell.t = "int" THEN StrInt(cell.v) ELSE cell.v

JobColumns == <<"Job Id", "Job Title", "Role">>

JobRow(id, title, role) ==
    [c \in Range(JobColumns) |->
        CASE c = "Job Id" -> IntCell(id) [] c = "Job Title" -> title [] c = "Role" -> role]

FrameA ==
    [columns |-> JobColumns,
     rows |-> << JobRow(1, StrCell(<<"p">>), StrCell(<<"q">>)),
                 JobRow(2, StrCell(<<"p", " ", "p">>), NaN),
                 JobRow(3, NaN, StrCell(<<"q">>)) >>]

FrameB ==
    [columns |-> JobColumns,
     rows |-> << JobRow(12, StrCell(<<"q">>), StrCell(<<"p">>)),
                 JobRow(1, StrCell(<<"p", " ", "p">>), StrCell(<<"p">>)) >>]

\* a batch without the 'Job Id' column
FrameNoId ==
    [columns |-> <<"Job Title", "Role">>,
     rows |-> << [c \in {"Job Title", "Role"} |-> StrCell(<<"p">>)] >>]

Frames == {FrameA, FrameB, FrameNoId}

\* text_columns: the columns of index_df, 'docno' appended last and removed again
RemoveFirst(s, x) ==
    IF \E i \in DOMAIN s : s[i] = x
    THEN LET k == CHOOSE i \in DOMAIN s : s[i] = x /\ \A j \in 1..(i - 1) : s[j] # x
         IN  SubSeq(s, 1, k - 1) \o SubSeq(s, k + 1, Len(s))
    ELSE s

TextColumns(df) == RemoveFirst(Append(df.columns, "docno"), "docno")

\* ' '.join(str(val) for val in row if pd.notna(val)) over the text columns
RowText(row, text_columns) ==
    LET cells == [i \in DOMAIN text_columns |-> row[text_columns[i]]]
        kept  == SelectSeq(cells, notna)
    IN  JoinSpace([i \in DOMAIN kept |-> StrOf(kept[i])])

\* index_df[['docno', 'text']].to_dict(orient='records')
IndexDocs(df) ==
    [i \in DOMAIN df.rows |->
        [docno |-> StrOf(df.rows[i]["Job Id"]),
         text  |-> RowText(df.rows[i], TextColumns(df))]]

HasIdColumn(df) == "Job Id" \in Range(df.columns)

(***************************************************************************)
(* The index location on disk                                              *)
(***************************************************************************)
Absent == [exists |-> FALSE, complete |-> FALSE, docs |-> <<>>]
EmptyDir == [exists |-> TRUE, complete |-> FALSE, docs |-> <<>>]
OnDisk(docs) == [exists |-> TRUE, complete |-> TRUE, docs |-> docs]

\* pt.IndexFactory.of(self.index_path): an index object over what the location
\* holds, each document with the terms of its text
IndexOf(d) ==
    [docs |-> [i \in DOMAIN d.docs |->
                  [docno |-> d.docs[i].docno, terms |-> Terms(d.docs[i].text)]]]

(***************************************************************************)
(* Ranking: what pt.BatchRetrieve(index, wmodel=...).transform computes.   *)
(* Terrier's weighting models are real-valued; each is modelled by an      *)
(* integer surrogate with the same shape (term frequency, document         *)
(* frequency, document length).                                            *)
(***************************************************************************)
ModelNames == {"BM25", "TF_IDF", "DirichletLM"}

\* the if / elif / else over model_name
WModelOf(model_name) ==
    IF model_name = "TF_IDF" THEN "TF_IDF"
    ELSE IF model_name = "DirichletLM" THEN "DirichletLM"
    ELSE "BM25"

\* pt.BatchRetrieve(self.index, wmodel=...): bound to the index object it is given
BatchRetrieve(idx, model_name) == [wmodel |-> WModelOf(model_name), index |-> idx]

Count(t, toks) == Cardinality({i \in DOMAIN toks : toks[i] = t})

\* the terms of each document of the index
DocTerms(docs) == [i \in DOMAIN docs |-> docs[i].terms]

DocFreq(t, dterms) == Cardinality({i \in DOMAIN dterms : Count(t, dterms[i]) > 0})

TermScore(wmodel, tf, df, n, dl) ==
    IF tf = 0 THEN 0
    ELSE CASE wmodel = "TF_IDF"      -> tf * (n - df + 1)
           [] wmodel = "BM25"        -> ((n - df + 1) * 10 * tf) \div (tf + dl)
           [] wmodel = "DirichletLM" -> (10 * tf + df) \div (dl + 1)

RECURSIVE SumSeq(_)
SumSeq(s) == IF Len(s) = 0 THEN 0 ELSE Head(s) + SumSeq(Tail(s))

DocScore(wmodel, dterms, qterms, i) ==
    SumSeq([k \in DOMAIN qterms |->
              TermScore(wmodel, Count(qterms[k], dterms[i]), DocFreq(qterms[k], dterms),
                        Len(dterms), Len(dterms[i]))])

\* candidates: the documents holding at least one query term
Candidates(dterms, qterms) ==
    {i \in DOMAIN dterms : \E k \in DOMAIN qterms : Count(qterms[k], dterms[i]) > 0}

\* best first: score descending, ties by ascending document number
RECURSIVE RankOrder(_, _, _)
RankOrder(S, sc, acc) ==
    IF S = {} THEN acc
    ELSE LET best == CHOOSE i \in S :
                        \A j \in S : sc[i] > sc[j] \/ (sc[i] = sc[j] /\ i <= j)
         IN  RankOrder(S \ {best}, sc, Append(acc, best))

\* self.retrieval_model.transform(query_df)
Transform(rm, query) ==
    LET docs   == rm.index.docs
        dterms == DocTerms(docs)
        qterms == Terms(query)
        cand   == Candidates(dterms, qterms)
        sc     == [i \in cand |-> DocScore(rm.wmodel, dterms, qterms, i)]
        order  == RankOrder(cand, sc, <<>>)
    IN  [r \in DOMAIN order |-> [docno |-> docs[order[r]].docno, score |-> sc[order[r]]]]

\* DataFrame.head(n): the first n rows; for negative n all but the last -n rows
DfHead(s, n) ==
    IF n >= 0 THEN SubSeq(s, 1, IF n < Len(s) THEN n ELSE Len(s))
    ELSE SubSeq(s, 1, IF Len(s) + n > 0 THEN Len(s) + n ELSE 0)

\* if len(results) > num_results: results = results.head(num_results)
LimitResults(results, num_results) ==
    IF Len(results) > num_results THEN DfHead(results, num_results) ELSE results

(***************************************************************************)
(* fetch_documents with a list of ids: SELECT ... WHERE "job_id" IN (...)  *)
(***************************************************************************)
\* With no id the statement reads IN (), which PostgreSQL rejects.
FetchRaises(doc_ids) == Len(doc_ids) = 0

Perms(S) ==
    {s \in [1..Cardinality(S) -> S] : \A i, j \in DOMAIN s : i # j => s[i] # s[j]}

\* The rows of the table whose job_id is listed; the statement has no ORDER BY,
\* so the rows come back in any order.
FetchDocuments(table, doc_ids) ==
    LET hit == {id \in table : StrInt(id) \in Range(doc_ids)}
    IN  {[r \in DOMAIN p |-> [job_id |-> p[r]]] : p \in Perms(hit)}

(***************************************************************************)
(* SearchEngine: one action per method, as its caller sees it              *)
(***************************************************************************)
Queries == { <<>>, <<"p">>, <<"q", " ", "p">>, <<"z">> }

\* the job_id column of the job_listings table, which holds every job indexed
JobListings == {1, 2, 3, 12}

InitDisks == {Absent, EmptyDir, OnDisk(IndexDocs(FrameA))}

\* __init__
Init ==
    /\ disk \in InitDisks
    /\ index = None
    /\ retrieval_model = None
    /\ db = JobListings
    /\ lastSet = "none"
    /\ wpc = "idle" /\ wdocs = <<>> /\ wjob = None
    /\ model = None
    /\ ret = [op |-> "init", status |-> "ok"]

\* a plausible slip: the directory is made and the old index dropped before the
\* id column is read
CreateIndexFailLate(df) ==
    /\ ~HasIdColumn(df)
    /\ disk' = EmptyDir
    /\ ret' = [op |-> "create_index", status |-> "error", error |-> "KeyError", df |-> df]
    /\ UNCHANGED <<index, retrieval_model, db, lastSet, writerVars, model>>

\* create_index(df) on a batch without the 'Job Id' column: index_df['Job Id'] raises
CreateIndexFail(df) ==
    /\ ~HasIdColumn(df)
    /\ ret' = [op |-> "create_index", status |-> "error", error |-> "KeyError", df |-> df]
    /\ UNCHANGED <<disk, index, retrieval_model, db, lastSet, writerVars, model>>

\* create_index(df): the location is overwritten and self.index reopened on it
CreateIndexOk(df) ==
    /\ HasIdColumn(df)
    /\ disk' = OnDisk(IndexDocs(df))
    /\ index' = IndexOf(disk')
    /\ ret' = [op |-> "create_index", status |-> "ok", df |-> df]
    /\ UNCHANGED <<retrieval_model, db, lastSet, writerVars, model>>

create_index == \E df \in Frames : CreateIndexFail(df) \/ CreateIndexOk(df)

\* load_index()
load_index ==
    /\ IF disk.exists
       THEN IF disk.complete
            THEN /\ index' = IndexOf(disk)
                 /\ ret' = [op |-> "load_index", status |-> "ok"]
            ELSE \* no index in the directory: IndexFactory.of fails
                 /\ index' = index
                 /\ ret' = [op |-> "load_index", status |-> "error"]
       ELSE /\ index' = index
            /\ ret' = [op |-> "load_index", status |-> "ok"]
    /\ UNCHANGED <<disk, retrieval_model, db, lastSet, writerVars, model>>

\* self.retrieval_model after set_retrieval_model(model_name)
AfterSetModel(idx, rm, model_name) ==
    IF idx = None THEN rm ELSE BatchRetrieve(idx, model_name)

\* set_retrieval_model(model_name), called by the user of the engine
set_retrieval_model ==
    \E m \in ModelNames :
        /\ retrieval_model' = AfterSetModel(index, retrieval_model, m)
        /\ lastSet' = m
        /\ ret' = [op |-> "set_retrieval_model", status |-> "ok", model |-> m]
        /\ UNCHANGED <<disk, index, db, writerVars, model>>

\* a plausible slip: a search on an engine without a retrieval model answers nothing
TransformOutcomeDefaulted(rm, query) ==
    IF rm = None THEN [status |-> "ok", results |-> <<>>]
    ELSE [status |-> "ok", results |-> Transform(rm, query)]

\* results = self.retrieval_model.transform(query_df); on None the attribute
\* lookup raises AttributeError
TransformOutcome(rm, query) ==
    IF rm = None THEN [status |-> "error", error |-> "AttributeError"]
    ELSE [status |-> "ok", results |-> Transform(rm, query)]

\* What a retrieval reads through an index object. The object's files are those
\* of the location, which create_index rewrites in place (overwrite=True): a read
\* after a rewrite began finds what the object already holds or what the
\* location holds now.
Views(idx, d) == {idx, IndexOf(d)}

\* search(query, num_results, engine). Its own set_retrieval_model() call, made
\* when no model is bound, is not a call of the caller: lastSet keeps its value.
Search(q, n, engine) ==
        LET rm == IF retrieval_model = None
                  THEN AfterSetModel(index, retrieval_model, "BM25")
                  ELSE retrieval_model
            call == [op |-> "search", query |-> q, num_results |-> n, engine |-> engine,
                     job |-> wjob]
        IN  /\ retrieval_model' = rm
            /\ UNCHANGED <<disk, index, db, lastSet, writerVars, model>>
            /\ \E view \in (IF rm = None THEN {None} ELSE Views(rm.index, disk)) :
                 LET bound == IF rm = None THEN None ELSE [rm EXCEPT !.index = view]
                     out   == TransformOutcome(bound, q)
                 IN  IF out.status = "error"
                     THEN ret' = call @@ out
                     ELSE LET results == LimitResults(out.results, n)
                              doc_ids == [i \in DOMAIN results |-> results[i].docno]
                          IN  IF ~engine
                              THEN ret' = call @@ [status |-> "ok", seen |-> view,
                                                   results |-> results]
                              ELSE IF FetchRaises(doc_ids)
                              THEN ret' = call @@ [status |-> "error", seen |-> view,
                                                   error |-> "ProgrammingError"]
                              ELSE \E rows \in FetchDocuments(db, doc_ids) :
                                      ret' = call @@ [status |-> "ok", seen |-> view,
                                                      results |-> rows]

search == \E q \in Queries, n \in MinLimit..MaxLimit, engine \in BOOLEAN : Search(q, n, engine)

\* the bodies of add_document requests: with and without the 'docno' field
Documents == { [docno |-> <<"7">>, text |-> <<"p">>], [text |-> <<"p">>] }

\* add_document(document) of the HTTP service. A body lacking 'docno' or 'text'
\* is refused (400). Otherwise create_index([document]) is called with a list:
\* list.copy() goes through and index_df['Job Id'] raises TypeError, before
\* anything of the engine or of the index location is touched; the handler
\* does not catch it and never reaches its success reply.
AddDocument(document) ==
    /\ ret' = [op |-> "add_document", status |-> "error", document |-> document,
               error |-> IF {"docno", "text"} \subseteq DOMAIN document
                         THEN "TypeError" ELSE "HTTP 400"]
    /\ UNCHANGED <<disk, index, retrieval_model, db, lastSet, writerVars, model>>

add_document == \E document \in Documents : AddDocument(document)

Next == create_index \/ load_index \/ set_retrieval_model \/ search \/ add_document

Spec == Init /\ [][Next]_vars

(***************************************************************************)
(* Claims about the SearchEngine, checked under Spec                       *)
(***************************************************************************)
SearchDone == ret.op = "search"
SearchReturned == ret.op = "search" /\ ret.status = "ok"

\* After a search, retrieval_model is the model that search ran (or None), and
\* ret.seen the index it read: the ranking of that search, before the limit.
Ranking == Transform([retrieval_model EXCEPT !.index = ret.seen], ret.query)

\* the score the ranking gave to a returned document
ScoreOf(r) ==
    IF "score" \in DOMAIN r THEN r.score
    ELSE LET k == CHOOSE k \in DOMAIN Ranking : Ranking[k].docno = StrInt(r.job_id)
         IN  Ranking[k].score

\* C1: once the caller has set model m, every later search that returns
\* results (here with a positive num_results) has scored them with m, until
\* the caller's next set_retrieval_model call.
C1_SearchUsesLastSetModel ==
    (SearchReturned /\ ret.num_results >= 1 /\ Len(ret.results) > 0 /\ lastSet # "none") =>
        retrieval_model.wmodel = lastSet

\* C2: on an engine that has an index, every search with num_results >= 1
\* returns at most num_results results, and all the candidates when there are
\* no more than num_results of them.
C2_AtMostLimitAndAllCandidates ==
    (SearchDone /\ retrieval_model # None /\ ret.num_results >= 1) =>
        /\ ret.status = "ok"
        /\ Len(ret.results) <= ret.num_results
        /\ (Len(Ranking) <= ret.num_results => Len(ret.results) = Len(Ranking))

\* C3: a search with num_results <= 0 fails and returns no result list.
C3_NonPositiveLimitFails ==
    (SearchDone /\ ret.num_results <= 0) =>
        (ret.status = "error" /\ "results" \notin DOMAIN ret)

\* C4: what a search returns (here with a positive num_results) is ordered
\* best first: no returned document has a greater score than the one before it.
C4_BestFirst ==
    (SearchReturned /\ ret.num_results >= 1) =>
        \A i \in 2..Len(ret.results) : ScoreOf(ret.results[i]) <= ScoreOf(ret.results[i - 1])

\* C5: on an engine that has an index, a search (here with a positive
\* num_results) that matches no document returns an empty result list and
\* no error.
C5_NoMatchReturnsEmpty ==
    (SearchDone /\ retrieval_model # None /\ ret.num_results >= 1 /\ Len(Ranking) = 0) =>
        (ret.status = "ok" /\ ret.results = <<>>)

\* C6: a search on an engine whose index is None ends in an error and returns
\* no result list.
C6_NoIndexSearchFails ==
    (SearchDone /\ index = None) =>
        (ret.status = "error" /\ "results" \notin DOMAIN ret)

\* C6 witness: a search was made with no index and nothing at the index path,
\* after the caller chose a model.
C6_Witness ==
    /\ SearchDone /\ index = None /\ disk = Absent /\ lastSet # "none"
    /\ ret.status = "error"

\* the text the claim expects for a row: the non-null cells of every column
\* but the id column, joined by single spaces
NonIdText(df, row) ==
    LET cols  == SelectSeq(df.columns, LAMBDA c : c # "Job Id")
        cells == [i \in DOMAIN cols |-> row[cols[i]]]
        kept  == SelectSeq(cells, notna)
    IN  JoinSpace([i \in DOMAIN kept |-> StrOf(kept[i])])

\* C7: the text indexed for each record of a batch is the single-space join
\* of its non-null fields other than 'Job Id'.
C7_TextIsNonIdFields ==
    (ret.op = "create_index" /\ ret.status = "ok") =>
        \A i \in DOMAIN ret.df.rows : disk.docs[i].text = NonIdText(ret.df, ret.df.rows[i])

\* C8: a create_index call on a batch without the 'Job Id' column fails and
\* leaves the index location, self.index and self.retrieval_model as they were.
C8_FailedCreateChangesNothing ==
    [][(ret'.op = "create_index" /\ ~HasIdColumn(ret'.df)) =>
          /\ ret'.status = "error"
          /\ disk' = disk /\ index' = index /\ retrieval_model' = retrieval_model]_vars

\* C8 witness: the failed call was made on an engine that had built an index
\* and chosen a model.
C8_Witness ==
    /\ ret.op = "create_index" /\ ret.status = "error" /\ ~HasIdColumn(ret.df)
    /\ disk.complete /\ index # None /\ retrieval_model # None

\* C16: an add_document request whose document has 'docno' and 'text' reports
\* success, and after it the engine's index is the one built from that single
\* document.
C16_AddDocumentRebuilds ==
    (ret.op = "add_document" /\ {"docno", "text"} \subseteq DOMAIN ret.document) =>
        /\ ret.status = "ok"
        /\ index = IndexOf(OnDisk(<< [docno |-> ret.document.docno,
                                      text  |-> ret.document.text] >>))

\* C17: every search that returns (here with a positive num_results and no
\* enrichment engine) returns the ranking computed on self.index as it is now,
\* also after a create_index made once a retrieval model was selected.
C17_SearchReadsCurrentIndex ==
    (SearchReturned /\ ret.num_results >= 1 /\ ~ret.engine /\ index # None) =>
        ret.results = LimitResults(Transform([retrieval_model EXCEPT !.index = index],
                                             ret.query), ret.num_results)

(***************************************************************************)
(* A rebuild by another process. start_indexing (python index.py) runs      *)
(* create_index on the index location while the serving process, which has *)
(* its own SearchEngine on the same location, answers searches. The steps   *)
(* of create_index are the writes it makes to the location.                 *)
(***************************************************************************)
\* os.makedirs and IterDictIndexer(overwrite=True): the old index is dropped
WriterBegin ==
    \E df \in Frames :
        /\ wpc = "idle"
        /\ HasIdColumn(df)
        /\ wpc' = "indexing"
        /\ wdocs' = IndexDocs(df)
        /\ wjob' = [pre |-> disk, post |-> OnDisk(IndexDocs(df))]
        /\ disk' = EmptyDir
        /\ UNCHANGED <<index, retrieval_model, db, lastSet, model, ret>>

\* self.indexer.index(...): one document taken from the generator and written
WriterWrite ==
    /\ wpc = "indexing"
    /\ wdocs # <<>>
    /\ disk' = [disk EXCEPT !.docs = Append(@, Head(wdocs))]
    /\ wdocs' = Tail(wdocs)
    /\ UNCHANGED <<index, retrieval_model, db, lastSet, wpc, wjob, model, ret>>

\* the generator is exhausted: the index is complete on disk
WriterFinish ==
    /\ wpc = "indexing"
    /\ wdocs = <<>>
    /\ disk' = [disk EXCEPT !.complete = TRUE]
    /\ wpc' = "idle"
    /\ wjob' = None
    /\ UNCHANGED <<index, retrieval_model, db, lastSet, wdocs, model, ret>>

InitConc ==
    /\ disk \in {OnDisk(IndexDocs(FrameA)), OnDisk(IndexDocs(FrameB))}
    /\ index = None
    /\ retrieval_model = None
    /\ db = JobListings
    /\ lastSet = "none"
    /\ wpc = "idle" /\ wdocs = <<>> /\ wjob = None
    /\ model = None
    /\ ret = [op |-> "init", status |-> "ok"]

\* the serving process answers a search with the default num_results and no
\* enrichment engine
SearchDuringRebuild == \E q \in {<<"p">>, <<"z">>} : Search(q, DefaultNumResults, FALSE)

NextConc == WriterBegin \/ WriterWrite \/ WriterFinish \/ load_index \/ SearchDuringRebuild

SpecConc == InitConc /\ [][NextConc]_vars

\* C9: a search made while a rebuild of its index location is running reads
\* the complete index of before the rebuild or the complete index of after
\* it.
C9_SearchSeesWholeIndex ==
    (SearchReturned /\ ret.job # None) =>
        (ret.seen = IndexOf(ret.job.pre) \/ ret.seen = IndexOf(ret.job.post))

(***************************************************************************)
(* QueryAutoCompletion.get_suggestions (src/qac.py) over the autocomplete   *)
(* package's models: WORDS_MODEL, a counter of words, and                   *)
(* WORD_TUPLES_MODEL, for each word a counter of the words that follow it.  *)
(* A counter is the sequence of its entries in insertion order.             *)
(***************************************************************************)
QacAlphabet == {"s", "e", "a", "S", " "}

\* \W: the characters that are not letters, digits or the underscore
NonWord == {" "}

QueryStrings == UNION {[1..k -> QacAlphabet] : k \in 0..MaxQueryLen}

\* re.split(r'\W+', query): the pieces between the runs of separators; a
\* separator at either end leaves an empty piece there
RECURSIVE SplitAcc(_, _, _, _)
SplitAcc(s, cur, acc, inSep) ==
    IF Len(s) = 0 THEN Append(acc, cur)
    ELSE IF Head(s) \in NonWord
         THEN IF inSep THEN SplitAcc(Tail(s), cur, acc, TRUE)
              ELSE SplitAcc(Tail(s), <<>>, Append(acc, cur), TRUE)
         ELSE SplitAcc(Tail(s), Append(cur, Head(s)), acc, FALSE)

\* a plausible slip: the empty pieces are dropped, as str.split() does
SplitNoEmpty(query) ==
    SelectSeq(SplitAcc(query, <<>>, <<>>, FALSE), LAMBDA t : Len(t) > 0)

Split(query) == SplitAcc(query, <<>>, <<>>, FALSE)

\* str.lower()
LowerChar(c) == IF c = "S" THEN "s" ELSE c
Lower(s) == [i \in DOMAIN s |-> LowerChar(s[i])]

\* str.startswith
StartsWith(w, prefix) == Len(prefix) <= Len(w) /\ SubSeq(w, 1, Len(prefix)) = prefix

\* a plausible slip: the slice keeps one element more
SliceToInclusive(s, n) ==
    IF n >= 0 THEN SubSeq(s, 1, IF n + 1 < Len(s) THEN n + 1 ELSE Len(s))
    ELSE SubSeq(s, 1, IF Len(s) + n + 1 > 0 THEN Len(s) + n + 1 ELSE 0)

\* s[:n]
SliceTo(s, n) ==
    IF n >= 0 THEN SubSeq(s, 1, IF n < Len(s) THEN n ELSE Len(s))
    ELSE SubSeq(s, 1, IF Len(s) + n > 0 THEN Len(s) + n ELSE 0)

\* s[k:] for k >= 0
SliceFrom(s, k) == SubSeq(s, k + 1, Len(s))

\* a plausible slip: the entries sorted by count, smallest first
RECURSIVE LeastCommon(_)
LeastCommon(entries) ==
    IF Len(entries) = 0 THEN <<>>
    ELSE LET k == CHOOSE i \in DOMAIN entries :
                     /\ \A j \in DOMAIN entries : entries[j].count >= entries[i].count
                     /\ \A j \in 1..(i - 1) : entries[j].count > entries[i].count
         IN  <<entries[k]>> \o
             LeastCommon(SubSeq(entries, 1, k - 1) \o SubSeq(entries, k + 1, Len(entries)))

\* Counter.most_common(): by count, largest first; equal counts in insertion order
RECURSIVE MostCommon(_)
MostCommon(entries) ==
    IF Len(entries) = 0 THEN <<>>
    ELSE LET k == CHOOSE i \in DOMAIN entries :
                     /\ \A j \in DOMAIN entries : entries[j].count <= entries[i].count
                     /\ \A j \in 1..(i - 1) : entries[j].count < entries[i].count
         IN  <<entries[k]>> \o
             MostCommon(SubSeq(entries, 1, k - 1) \o SubSeq(entries, k + 1, Len(entries)))

Raised(e) == [status |-> "error", error |-> e]
Returned(v) == [status |-> "ok", value |-> v]
\* the end of the function body is reached: the call returns None
ReturnedNone == [status |-> "none"]

\* autocomplete.predict(first_word, second_word, top_n), for a second_word of
\* at most two characters (a longer one is also tried with its last character
\* replaced by the keys near it)
Predict(m, first_word, second_word, top_n) ==
    IF first_word # <<>> /\ second_word # <<>>
    THEN IF Lower(first_word) \notin DOMAIN m.tuples
         THEN Raised("Exception")
         ELSE Returned(SliceTo(MostCommon(SelectSeq(m.tuples[Lower(first_word)],
                                   LAMBDA e : StartsWith(e.word, second_word))), top_n))
    ELSE IF m.words_type # "Counter"
         THEN \* WORDS_MODEL.most_common: a dict has no such attribute
              Raised("AttributeError")
         ELSE Returned(SliceTo(SelectSeq(MostCommon(m.words),
                                         LAMBDA e : StartsWith(e.word, first_word)), top_n))

\* the try block: tokens[-2] raises IndexError when there is one token; predict
\* may raise; and len(predictions < limit) compares a list with an int, which
\* raises TypeError
TryContext(m, tokens, limit) ==
    IF Len(tokens) < 2 THEN Raised("IndexError")
    ELSE LET p == Predict(m, tokens[Len(tokens) - 1], tokens[Len(tokens)], limit)
         IN  IF p.status = "error" THEN p ELSE Raised("TypeError")

\* a plausible slip: the whole predicted word is appended to the query
ExtendWhole(query, suggestion, last) == query \o suggestion

\* query + suggestion[len(tokens[-1]):]
Extend(query, suggestion, last) == query \o SliceFrom(suggestion, Len(last))

\* get_suggestions(query, limit)
GetSuggestions(m, query, limit) ==
    LET tokens == Split(query)
        last   == tokens[Len(tokens)]
        try    == TryContext(m, tokens, limit)
        fall   == IF try.status = "error" THEN Predict(m, last, <<>>, limit) ELSE try
    IN  IF Len(tokens) > 0
        THEN IF fall.status = "error" THEN fall
             ELSE Returned(SliceTo([i \in DOMAIN fall.value |->
                                       Extend(query, fall.value[i].word, last)], limit))
        ELSE ReturnedNone

Entry(w, c) == [word |-> w, count |-> c]

\* the model trained on the single word "search"
ModelSearch ==
    [words_type |-> "Counter",
     words  |-> << Entry(<<"s", "e", "a", "r", "c", "h">>, 1) >>,
     tuples |-> << >>]

\* the model trained on the text "sea sea sea a see a see a sea se ease": the
\* words counted in the order they first occur, and for each word but the last
\* the words that follow it
ModelSea ==
    [words_type |-> "Counter",
     words  |-> << Entry(<<"s", "e", "a">>, 4), Entry(<<"a">>, 3),
                   Entry(<<"s", "e", "e">>, 2), Entry(<<"s", "e">>, 1),
                   Entry(<<"e", "a", "s", "e">>, 1) >>,
     tuples |-> (<<"s", "e", "a">> :> << Entry(<<"s", "e", "a">>, 2), Entry(<<"a">>, 1),
                                        Entry(<<"s", "e">>, 1) >>)
             @@ (<<"a">> :> << Entry(<<"s", "e", "e">>, 2), Entry(<<"s", "e", "a">>, 1) >>)
             @@ (<<"s", "e", "e">> :> << Entry(<<"a">>, 2) >>)
             @@ (<<"s", "e">> :> << Entry(<<"e", "a", "s", "e">>, 1) >>)]

QacModels == {ModelSearch, ModelSea}

\* the limits given to get_suggestions: the small ones and the default
Limits == (MinLimit..MaxLimit) \cup {DefaultLimit}

\* a request: the model is loaded and get_suggestions is about to be called
InitQac ==
    /\ model \in QacModels
    /\ \E q \in QueryStrings, l \in Limits :
          ret = [op |-> "request", status |-> "pending", query |-> q, limit |-> l]
    /\ disk = Absent /\ index = None /\ retrieval_model = None
    /\ db = JobListings /\ lastSet = "none"
    /\ wpc = "idle" /\ wdocs = <<>> /\ wjob = None

get_suggestions ==
    /\ ret.op = "request"
    /\ LET out == GetSuggestions(model, ret.query, ret.limit)
       IN  ret' = [op |-> "get_suggestions", query |-> ret.query, limit |-> ret.limit] @@ out
    /\ UNCHANGED <<disk, index, retrieval_model, db, lastSet, writerVars, model>>

NextQac == get_suggestions

SpecQac == InitQac /\ [][NextQac]_vars

\* get_suggestions returned a list
SuggestReturned == ret.op = "get_suggestions" /\ ret.status = "ok"

LastToken(query) == Split(query)[Len(Split(query))]

\* C10: every suggestion returned is the query, unmodified, followed by the
\* part of a word of the model, one that starts with the last token of the
\* query, beyond the length of that token; so the query is a prefix of it.
C10_SuggestionExtendsQuery ==
    SuggestReturned =>
        \A i \in DOMAIN ret.value :
            /\ SubSeq(ret.value[i], 1, Len(ret.query)) = ret.query
            /\ \E k \in DOMAIN model.words :
                  /\ StartsWith(model.words[k].word, LastToken(ret.query))
                  /\ LastToken(ret.query) \o SliceFrom(ret.value[i], Len(ret.query))
                        = model.words[k].word

\* C10 witness: a query of two tokens, the last one not empty, got a
\* suggestion that is longer than the query.
C10_Witness ==
    /\ SuggestReturned
    /\ Len(Split(ret.query)) = 2 /\ LastToken(ret.query) # <<>>
    /\ Len(ret.value) > 0 /\ Len(ret.value[1]) > Len(ret.query)

\* the entries of the model's words that start with prefix p
Completing(m, p) == {k \in DOMAIN m.words : StartsWith(m.words[k].word, p)}

\* C11 as stated: for every query and every limit, negative ones included,
\* get_suggestions returns a list of at most limit items, and the empty list
\* when no word of the model starts with the last token.
C11_AtMostLimitAnyLimit ==
    ret.op = "get_suggestions" =>
        /\ ret.status = "ok"
        /\ Len(ret.value) <= ret.limit
        /\ (Completing(model, LastToken(ret.query)) = {} => ret.value = <<>>)

\* C11 amended: for every query and every limit >= 0, get_suggestions returns
\* a list of at most limit items, and the empty list when no word of the model
\* starts with the last token.
C11_AtMostLimit ==
    (ret.op = "get_suggestions" /\ ret.limit >= 0) =>
        /\ ret.status = "ok"
        /\ Len(ret.value) <= ret.limit
        /\ (Completing(model, LastToken(ret.query)) = {} => ret.value = <<>>)

\* C11 witness: more words complete the last token than the limit allows, and
\* exactly limit suggestions came back.
C11_Witness ==
    /\ SuggestReturned /\ ret.limit >= 1
    /\ Cardinality(Completing(model, LastToken(ret.query))) > ret.limit
    /\ Len(ret.value) = ret.limit

\* C11 witness of the empty case: no word completes the last token.
C11_WitnessNoCandidate ==
    /\ SuggestReturned /\ ret.limit >= 1
    /\ Completing(model, LastToken(ret.query)) = {}
    /\ ret.value = <<>>

\* the context of a query: the token before the last one
ContextToken(query) == Split(query)[Len(Split(query)) - 1]

\* the counter recorded for the words that follow context c
Following(m, c) == IF Lower(c) \in DOMAIN m.tuples THEN m.tuples[Lower(c)] ELSE <<>>

\* the entries recorded for (context c, prefix p)
ContextCompleting(m, c, p) ==
    {k \in DOMAIN Following(m, c) : StartsWith(Following(m, c)[k].word, p)}

\* C12: for a query with a context and a non-empty last token (and a limit
\* >= 1), the suggestions start with the completions recorded for (context,
\* prefix), most frequent first, as many of them as the limit allows; what
\* follows them is backfill, and no suggestion is given twice.
C12_ContextFirstThenBackfill ==
    (/\ ret.op = "get_suggestions" /\ ret.limit >= 1
     /\ Len(Split(ret.query)) >= 2
     /\ ContextToken(ret.query) # <<>> /\ LastToken(ret.query) # <<>>) =>
        /\ ret.status = "ok"
        /\ LET p    == LastToken(ret.query)
               rec  == Following(model, ContextToken(ret.query))
               C    == ContextCompleting(model, ContextToken(ret.query), p)
               k    == IF Cardinality(C) < ret.limit THEN Cardinality(C) ELSE ret.limit
               S(e) == ret.query \o SliceFrom(rec[e].word, Len(p))
           IN  /\ Len(ret.value) >= k
               /\ \A i \in 1..k :
                     \E e \in C :
                        /\ ret.value[i] = S(e)
                        /\ \A f \in C : rec[f].count > rec[e].count =>
                                           \E j \in 1..(i - 1) : ret.value[j] = S(f)
               /\ \A i, j \in DOMAIN ret.value : i # j => ret.value[i] # ret.value[j]

\* C15: for a query made of one token p (no separator, not empty) and a limit
\* >= 0, get_suggestions returns the words of the model that start with p, most
\* frequent first, as many as the limit allows and each once; and
\* get_suggestions("sea", 5) on the model holding only "search" returns
\* ["search"].
C15_SingleTokenContextFree ==
    (/\ ret.op = "get_suggestions" /\ ret.limit >= 0
     /\ Len(Split(ret.query)) = 1 /\ ret.query # <<>>) =>
        /\ ret.status = "ok"
        /\ LET C == Completing(model, ret.query)
               k == IF Cardinality(C) < ret.limit THEN Cardinality(C) ELSE ret.limit
           IN  /\ Len(ret.value) = k
               /\ \A i \in 1..k :
                     \E e \in C :
                        /\ ret.value[i] = model.words[e].word
                        /\ \A f \in C : model.words[f].count > model.words[e].count =>
                               \E j \in 1..(i - 1) : ret.value[j] = model.words[f].word
               /\ \A i, j \in DOMAIN ret.value : i # j => ret.value[i] # ret.value[j]
        /\ (model = ModelSearch /\ ret.query = <<"s", "e", "a">> /\ ret.limit = 5) =>
               ret.value = << <<"s", "e", "a", "r", "c", "h">> >>

\* C15 witness: get_suggestions("sea", 5) on the model holding only "search"
\* returned ["search"].
C15_Witness ==
    /\ SuggestReturned /\ model = ModelSearch
    /\ ret.query = <<"s", "e", "a">> /\ ret.limit = 5
    /\ ret.value = << <<"s", "e", "a", "r", "c", "h">> >>

\* C15 witness of the ranking: a single-token query with several completions,
\* cut by the limit.
C15_WitnessRanked ==
    /\ SuggestReturned /\ Len(Split(ret.query)) = 1 /\ ret.query # <<>>
    /\ ret.limit = 2 /\ Cardinality(Completing(model, ret.query)) > 2
    /\ Len(ret.value) = 2

\* C13: get_suggestions("", n) returns the empty list, for every n and every
\* loaded model.
C13_EmptyQueryNoSuggestion ==
    (ret.op = "get_suggestions" /\ ret.query = <<>>) =>
        (ret.status = "ok" /\ ret.value = <<>>)

\* C18: for every query, the empty one and those made only of separators
\* included, the split yields at least one token and get_suggestions returns a
\* list, never None.
C18_AlwaysAList ==
    ret.op = "get_suggestions" =>
        (Len(Split(ret.query)) >= 1 /\ ret.status = "ok")

\* C18 witness: a query made only of separators got a list.
C18_Witness ==
    /\ SuggestReturned
    /\ ret.query # <<>> /\ \A i \in DOMAIN ret.query : ret.query[i] \in NonWord

\* C18 witness of the empty query.
C18_WitnessEmpty == SuggestReturned /\ ret.query = <<>>

(***************************************************************************)
(* A QueryAutoCompletion object from its construction: __init__ loads      *)
(* nothing, load_model replaces the package's models by what the snapshot  *)
(* holds.                                                                  *)
(***************************************************************************)
\* before any load WORDS_MODEL and WORD_TUPLES_MODEL are empty dicts
ModelUnloaded == [words_type |-> "dict", words |-> <<>>, tuples |-> <<>>]

\* a snapshot whose words model is a plain dict and not a Counter
ModelDict ==
    [words_type |-> "dict",
     words  |-> << Entry(<<"s", "e", "a">>, 1) >>,
     tuples |-> << >>]

Snapshots == QacModels \cup {ModelDict}

InitQacObject ==
    /\ model = ModelUnloaded
    /\ \E q \in QueryStrings, l \in Limits :
          ret = [op |-> "request", status |-> "pending", query |-> q, limit |-> l]
    /\ disk = Absent /\ index = None /\ retrieval_model = None
    /\ db = JobListings /\ lastSet = "none"
    /\ wpc = "idle" /\ wdocs = <<>> /\ wjob = None

\* load_model(pickle_filepath)
load_model ==
    /\ model = ModelUnloaded
    /\ ret.op = "request"
    /\ model' \in Snapshots
    /\ UNCHANGED <<disk, index, retrieval_model, db, lastSet, writerVars, ret>>

NextQacObject == load_model \/ get_suggestions

SpecQacObject == InitQacObject /\ [][NextQacObject]_vars

\* C14: once a model has been loaded, whatever its state, get_suggestions
\* (here with a positive limit) raises nothing to its caller: it returns a
\* list.
C14_NeverRaises ==
    (ret.op = "get_suggestions" /\ ret.limit >= 1 /\ model # ModelUnloaded) =>
        ret.status = "ok"

====
